---- MODULE Spec2Model ----
(***************************************************************************)
(* Hand pose pipeline of HandCameraDriver: gesture_detector.py,            *)
(* Camera.py (HandTracker.process_hand_landmarks, calculate_palm_size and  *)
(* the frame loop of run), hand_data.py (the protocol encoder), the        *)
(* framing of utils/socket_client.py (SocketClient.send) and the key       *)
(* handling of calibrate.py (Calibrator.run).                              *)
(*                                                                         *)
(* Spec is the tracking loop, ReplaySpec the same loop with a history of   *)
(* the hands seen, EncoderSpec the encoder on its own, CalibratorSpec the  *)
(* calibration tool and SocketSpec the socket client with its reconnects.  *)
(*                                                                         *)
(* Python floats are modelled as fixed-point numbers: the integer n stands *)
(* for n / Unit, and every product, quotient and square root is rounded to *)
(* the nearest multiple of 1 / Unit, as an IEEE operation rounds to the    *)
(* nearest float.  Keypoints are drawn from grids on which the distances   *)
(* the claims compare are exact.                                           *)
(***************************************************************************)
EXTENDS Integers, Sequences, FiniteSets, TLC

VARIABLES
    pinch_threshold,            \* GestureDetector.pinch_threshold
    finger_extended_threshold,  \* GestureDetector.finger_extended_threshold
    calibration,                \* HandTracker.calibration: [scale, position_offset]
    landmarks,                  \* the keypoint set the detector supplied for the hand
    hand_label,                 \* the handedness label the detector supplied
    hand_data,                  \* the HandData built for the hand, or NoHand
    finger_query,               \* last is_finger_extended call: [finger, extended], or NoQuery
    pc,                         \* where the tracking loop stands
    pending,                    \* the hands of the frame the loop has not reached yet
    hands_data,                 \* run: hands_data, the HandData of the frame's hands
    sent,                       \* the protocol strings given to SocketClient.send in this frame
    wire,                       \* the data SocketClient.send wrote to the socket in this frame
    first_seen,                 \* history: the first record made for each hand seen so far
    pose,                       \* a HandData built outside the tracker, or NoHand
    line,                       \* what to_protocol_string returned for pose
    calibrator,                 \* Calibrator: [position_offset, scale]
    config_json,                \* the calibration section of the configuration file
    cal_pc,                     \* where the calibration tool stands
    client,                     \* SocketClient: its fields
    clock,                      \* what time.time() returns
    last_send,                  \* history: the latest call of send, or NoSend
    attempts,                   \* history: the clock readings at which send called connect
    dropped,                    \* history: the records whose send found no connection
    stream                      \* history: what sendall wrote to the connection

\* the tracker's own state
tracker_vars == <<pinch_threshold, finger_extended_threshold, calibration,
                  landmarks, hand_label, hand_data, finger_query, pc,
                  pending, hands_data, sent, wire>>

\* the state of the encoder exercised on its own
encoder_vars == <<pose, line>>

\* the state of the calibration tool
calibrator_vars == <<calibrator, config_json, cal_pc>>

\* the state of a SocketClient exercised on its own
socket_vars == <<client, clock, last_send, attempts, dropped, stream>>

vars == <<tracker_vars, first_seen, encoder_vars, calibrator_vars, socket_vars>>

----------------------------------------------------------------------------
(* Fixed-point arithmetic standing for Python float arithmetic.            *)

\* 1.0; the resolution is that of the wire format's four decimal places
Unit == 10000

Abs(a) == IF a < 0 THEN -a ELSE a

Sign(a) == IF a < 0 THEN -1 ELSE 1

\* a * b on floats
FMul(a, b) == Sign(a) * Sign(b) * ((Abs(a) * Abs(b) + Unit \div 2) \div Unit)

\* a / b on floats, b # 0
FDiv(a, b) == Sign(a) * Sign(b) * ((Abs(a) * Unit + Abs(b) \div 2) \div Abs(b))

RECURSIVE SqrtSearch(_, _, _)
\* the largest r in lo..hi with r * r <= n
SqrtSearch(n, lo, hi) ==
    IF lo >= hi THEN lo
    ELSE LET mid == (lo + hi + 1) \div 2
         IN  IF mid * mid <= n THEN SqrtSearch(n, mid, hi)
                               ELSE SqrtSearch(n, lo, mid - 1)

\* the integer nearest to the square root of n >= 0
ISqrt(n) ==
    LET r == SqrtSearch(n, 0, 46340)
    IN  IF n - r * r > r THEN r + 1 ELSE r

\* math.sqrt(a) on floats, a >= 0
FSqrt(a) == ISqrt(a * Unit)

----------------------------------------------------------------------------
(* Vectors: numpy arrays of three floats.                                  *)

VSub(a, b) == <<a[1] - b[1], a[2] - b[2], a[3] - b[3]>>

\* np.linalg.norm
VNorm(a) == ISqrt(a[1] * a[1] + a[2] * a[2] + a[3] * a[3])

\* v / norm
VScale(a, n) == <<FDiv(a[1], n), FDiv(a[2], n), FDiv(a[3], n)>>

\* np.cross
VCross(a, b) ==
    <<FMul(a[2], b[3]) - FMul(a[3], b[2]),
      FMul(a[3], b[1]) - FMul(a[1], b[3]),
      FMul(a[1], b[2]) - FMul(a[2], b[1])>>

----------------------------------------------------------------------------
(* gesture_detector.py: GestureDetector                                    *)

WRIST == 0
THUMB_MCP == 2
THUMB_TIP == 4
INDEX_FINGER_MCP == 5
INDEX_FINGER_TIP == 8
MIDDLE_FINGER_MCP == 9
MIDDLE_FINGER_TIP == 12
RING_FINGER_MCP == 13
RING_FINGER_TIP == 16
PINKY_MCP == 17
PINKY_TIP == 20

\* the number of keypoints the length guards compare with
NumLandmarks == 21

\* the factor of the thumb's extension test
ThumbFactor == 12000

\* landmarks[i] of the Python list (0-based)
At(lm, i) == lm[i + 1]

Fingers == {"thumb", "index", "middle", "ring", "pinky"}

finger_tips ==
    [f \in Fingers |->
        CASE f = "thumb"  -> THUMB_TIP
          [] f = "index"  -> INDEX_FINGER_TIP
          [] f = "middle" -> MIDDLE_FINGER_TIP
          [] f = "ring"   -> RING_FINGER_TIP
          [] f = "pinky"  -> PINKY_TIP]

finger_mcp ==
    [f \in Fingers |->
        CASE f = "thumb"  -> THUMB_MCP
          [] f = "index"  -> INDEX_FINGER_MCP
          [] f = "middle" -> MIDDLE_FINGER_MCP
          [] f = "ring"   -> RING_FINGER_MCP
          [] f = "pinky"  -> PINKY_MCP]

calculate_distance(point1, point2) == VNorm(VSub(point1, point2))

\* is_finger_extended without the thumb's own factor: every finger is
\* tested against the configured threshold
is_finger_extended_no_thumb_case(lm, finger_name) ==
    IF Len(lm) < NumLandmarks THEN FALSE
    ELSE LET dist_tip_to_wrist ==
                 calculate_distance(At(lm, finger_tips[finger_name]), At(lm, WRIST))
             dist_mcp_to_wrist ==
                 calculate_distance(At(lm, finger_mcp[finger_name]), At(lm, WRIST))
         IN  dist_tip_to_wrist > FMul(dist_mcp_to_wrist, finger_extended_threshold)

\* is_finger_extended refusing every keypoint set of another length than 21
is_finger_extended_exact_length(lm, finger_name) ==
    IF Len(lm) # NumLandmarks THEN FALSE
    ELSE IF finger_name \notin DOMAIN finger_tips THEN FALSE
    ELSE LET tip_idx == finger_tips[finger_name]
             mcp_idx == finger_mcp[finger_name]
             dist_tip_to_wrist == calculate_distance(At(lm, tip_idx), At(lm, WRIST))
             dist_mcp_to_wrist == calculate_distance(At(lm, mcp_idx), At(lm, WRIST))
         IN  IF finger_name = "thumb"
             THEN dist_tip_to_wrist > FMul(dist_mcp_to_wrist, ThumbFactor)
             ELSE dist_tip_to_wrist > FMul(dist_mcp_to_wrist, finger_extended_threshold)

is_finger_extended(lm, finger_name) ==
    IF Len(lm) < NumLandmarks THEN FALSE
    ELSE IF finger_name \notin DOMAIN finger_tips THEN FALSE
    ELSE LET tip_idx == finger_tips[finger_name]
             mcp_idx == finger_mcp[finger_name]
             dist_tip_to_wrist == calculate_distance(At(lm, tip_idx), At(lm, WRIST))
             dist_mcp_to_wrist == calculate_distance(At(lm, mcp_idx), At(lm, WRIST))
         IN  IF finger_name = "thumb"
             THEN dist_tip_to_wrist > FMul(dist_mcp_to_wrist, ThumbFactor)
             ELSE dist_tip_to_wrist > FMul(dist_mcp_to_wrist, finger_extended_threshold)

\* detect_pinch with <= in place of <
detect_pinch_inclusive(lm) ==
    IF Len(lm) < NumLandmarks THEN FALSE
    ELSE calculate_distance(At(lm, THUMB_TIP), At(lm, INDEX_FINGER_TIP)) <= pinch_threshold

detect_pinch(lm) ==
    IF Len(lm) < NumLandmarks THEN FALSE
    ELSE calculate_distance(At(lm, THUMB_TIP), At(lm, INDEX_FINGER_TIP)) < pinch_threshold

\* sum([...]) of the five booleans
extended_count(lm) == Cardinality({f \in Fingers : is_finger_extended(lm, f)})

\* detect_gesture with the PEACE guard also asking for a closed thumb
detect_gesture_strict_peace(lm) ==
    IF Len(lm) < NumLandmarks THEN "UNKNOWN"
    ELSE LET thumb_extended  == is_finger_extended(lm, "thumb")
             index_extended  == is_finger_extended(lm, "index")
             middle_extended == is_finger_extended(lm, "middle")
             ring_extended   == is_finger_extended(lm, "ring")
             pinky_extended  == is_finger_extended(lm, "pinky")
         IN  IF detect_pinch(lm) THEN "PINCH"
             ELSE IF extended_count(lm) = 0 THEN "FIST"
             ELSE IF index_extended /\ ~middle_extended /\ ~ring_extended
                     /\ ~pinky_extended /\ ~thumb_extended THEN "POINT"
             ELSE IF index_extended /\ middle_extended /\ ~ring_extended
                     /\ ~pinky_extended /\ ~thumb_extended THEN "PEACE"
             ELSE IF thumb_extended /\ ~index_extended /\ ~middle_extended
                     /\ ~ring_extended /\ ~pinky_extended THEN "THUMBS_UP"
             ELSE IF extended_count(lm) >= 4 THEN "OPEN"
             ELSE "UNKNOWN"

\* detect_gesture with the FIST guard tried before the pinch test
detect_gesture_fist_first(lm) ==
    IF Len(lm) < NumLandmarks THEN "UNKNOWN"
    ELSE LET thumb_extended  == is_finger_extended(lm, "thumb")
             index_extended  == is_finger_extended(lm, "index")
             middle_extended == is_finger_extended(lm, "middle")
             ring_extended   == is_finger_extended(lm, "ring")
             pinky_extended  == is_finger_extended(lm, "pinky")
         IN  IF extended_count(lm) = 0 THEN "FIST"
             ELSE IF detect_pinch(lm) THEN "PINCH"
             ELSE IF index_extended /\ ~middle_extended /\ ~ring_extended
                     /\ ~pinky_extended /\ ~thumb_extended THEN "POINT"
             ELSE IF index_extended /\ middle_extended /\ ~ring_extended
                     /\ ~pinky_extended THEN "PEACE"
             ELSE IF thumb_extended /\ ~index_extended /\ ~middle_extended
                     /\ ~ring_extended /\ ~pinky_extended THEN "THUMBS_UP"
             ELSE IF extended_count(lm) >= 4 THEN "OPEN"
             ELSE "UNKNOWN"

\* detect_gesture taking three extended fingers for an open hand, before the
\* other guards
detect_gesture_open_from_three(lm) ==
    IF Len(lm) < NumLandmarks THEN "UNKNOWN"
    ELSE LET thumb_extended  == is_finger_extended(lm, "thumb")
             index_extended  == is_finger_extended(lm, "index")
             middle_extended == is_finger_extended(lm, "middle")
             ring_extended   == is_finger_extended(lm, "ring")
             pinky_extended  == is_finger_extended(lm, "pinky")
         IN  IF detect_pinch(lm) THEN "PINCH"
             ELSE IF extended_count(lm) = 0 THEN "FIST"
             ELSE IF extended_count(lm) >= 3 THEN "OPEN"
             ELSE IF index_extended /\ ~middle_extended /\ ~ring_extended
                     /\ ~pinky_extended /\ ~thumb_extended THEN "POINT"
             ELSE IF index_extended /\ middle_extended /\ ~ring_extended
                     /\ ~pinky_extended THEN "PEACE"
             ELSE IF thumb_extended /\ ~index_extended /\ ~middle_extended
                     /\ ~ring_extended /\ ~pinky_extended THEN "THUMBS_UP"
             ELSE "UNKNOWN"

detect_gesture(lm) ==
    IF Len(lm) < NumLandmarks THEN "UNKNOWN"
    ELSE LET thumb_extended  == is_finger_extended(lm, "thumb")
             index_extended  == is_finger_extended(lm, "index")
             middle_extended == is_finger_extended(lm, "middle")
             ring_extended   == is_finger_extended(lm, "ring")
             pinky_extended  == is_finger_extended(lm, "pinky")
         IN  IF detect_pinch(lm) THEN "PINCH"
             ELSE IF extended_count(lm) = 0 THEN "FIST"
             ELSE IF index_extended /\ ~middle_extended /\ ~ring_extended
                     /\ ~pinky_extended /\ ~thumb_extended THEN "POINT"
             ELSE IF index_extended /\ middle_extended /\ ~ring_extended
                     /\ ~pinky_extended THEN "PEACE"
             ELSE IF thumb_extended /\ ~index_extended /\ ~middle_extended
                     /\ ~ring_extended /\ ~pinky_extended THEN "THUMBS_UP"
             ELSE IF extended_count(lm) >= 4 THEN "OPEN"
             ELSE "UNKNOWN"

\* get_trigger_value with the values of POINT and PINCH exchanged
get_trigger_value_swapped(gesture) ==
    IF gesture = "POINT" THEN Unit
    ELSE IF gesture = "PINCH" THEN 8000
    ELSE 0

get_trigger_value(gesture) ==
    IF gesture = "POINT" THEN 8000
    ELSE IF gesture = "PINCH" THEN Unit
    ELSE 0

get_grip_value(gesture) ==
    IF gesture = "FIST" THEN Unit
    ELSE IF gesture = "PINCH" THEN 5000
    ELSE 0

\* the identity quaternion (1.0, 0.0, 0.0, 0.0)
IdentityQuaternion == <<Unit, 0, 0, 0>>

\* forward = middle_mcp - wrist, before it is normalised
forward_raw(lm) == VSub(At(lm, MIDDLE_FINGER_MCP), At(lm, WRIST))

\* forward / forward_norm (taken only when forward_norm > 0)
forward_vector(lm) == VScale(forward_raw(lm), VNorm(forward_raw(lm)))

\* right = middle_mcp - index_mcp, normalised, or the fallback [1, 0, 0]
right_first(lm) ==
    LET right == VSub(At(lm, MIDDLE_FINGER_MCP), At(lm, INDEX_FINGER_MCP))
        right_norm == VNorm(right)
    IN  IF right_norm > 0 THEN VScale(right, right_norm) ELSE <<Unit, 0, 0>>

\* up = cross(forward, right), normalised, or the fallback [0, 1, 0]
up_vector(lm) ==
    LET up == VCross(forward_vector(lm), right_first(lm))
        up_norm == VNorm(up)
    IN  IF up_norm > 0 THEN VScale(up, up_norm) ELSE <<0, Unit, 0>>

\* right = cross(up, forward), the recalculated right
right_vector(lm) == VCross(up_vector(lm), forward_vector(lm))

\* the nine entries the code unpacks: m00, m01, m02 = right; m10, m11, m12 = up;
\* m20, m21, m22 = forward.  m[i + 1][j + 1] is the code's m<i><j>.
rotation_matrix(lm) == <<right_vector(lm), up_vector(lm), forward_vector(lm)>>

\* the four-branch conversion of the entries m<i><j> to (qw, qx, qy, qz)
matrix_to_quaternion(m) ==
    LET m00 == m[1][1]  m01 == m[1][2]  m02 == m[1][3]
        m10 == m[2][1]  m11 == m[2][2]  m12 == m[2][3]
        m20 == m[3][1]  m21 == m[3][2]  m22 == m[3][3]
        trace == m00 + m11 + m22
    IN  IF trace > 0 THEN
            LET s == FDiv(Unit \div 2, FSqrt(trace + Unit))
            IN  <<FDiv(Unit \div 4, s), FMul(m21 - m12, s),
                  FMul(m02 - m20, s), FMul(m10 - m01, s)>>
        ELSE IF m00 > m11 /\ m00 > m22 THEN
            LET s == 2 * FSqrt(Unit + m00 - m11 - m22)
            IN  <<FDiv(m21 - m12, s), FMul(Unit \div 4, s),
                  FDiv(m01 + m10, s), FDiv(m02 + m20, s)>>
        ELSE IF m11 > m22 THEN
            LET s == 2 * FSqrt(Unit + m11 - m00 - m22)
            IN  <<FDiv(m02 - m20, s), FDiv(m01 + m10, s),
                  FMul(Unit \div 4, s), FDiv(m12 + m21, s)>>
        ELSE
            LET s == 2 * FSqrt(Unit + m22 - m00 - m11)
            IN  <<FDiv(m10 - m01, s), FDiv(m02 + m20, s),
                  FDiv(m12 + m21, s), FMul(Unit \div 4, s)>>

calculate_hand_orientation(lm) ==
    IF Len(lm) < NumLandmarks THEN IdentityQuaternion
    ELSE IF VNorm(forward_raw(lm)) > 0
         THEN matrix_to_quaternion(rotation_matrix(lm))
         ELSE IdentityQuaternion

----------------------------------------------------------------------------
(* Camera.py: HandTracker                                                  *)

\* the palm size of a keypoint set shorter than 21 points (0.1)
FallbackPalmSize == 1000

\* calculate_palm_size measuring to the middle knuckle instead of the pinky's
calculate_palm_size_middle_knuckle(lm) ==
    IF Len(lm) < NumLandmarks THEN FallbackPalmSize
    ELSE LET wrist == At(lm, 0)
             index_mcp == At(lm, 5)
             middle_mcp == At(lm, 9)
             dist1 == calculate_distance(wrist, index_mcp)
             dist2 == calculate_distance(wrist, middle_mcp)
             dist3 == calculate_distance(index_mcp, middle_mcp)
         IN  FDiv(dist1 + dist2 + dist3, 3 * Unit)

calculate_palm_size(lm) ==
    IF Len(lm) < NumLandmarks THEN FallbackPalmSize
    ELSE LET wrist == At(lm, 0)
             index_mcp == At(lm, 5)
             pinky_mcp == At(lm, 17)
             dist1 == calculate_distance(wrist, index_mcp)
             dist2 == calculate_distance(wrist, pinky_mcp)
             dist3 == calculate_distance(index_mcp, pinky_mcp)
         IN  FDiv(dist1 + dist2 + dist3, 3 * Unit)

\* hand_position with a depth that grows with the palm size
hand_position_depth_grows(lm) ==
    LET wrist == At(lm, 0)
        x == FMul(wrist[1] - Unit \div 2, 2 * Unit)
        y == FMul(-(wrist[2] - Unit \div 2), 2 * Unit)
        palm_size == calculate_palm_size(lm)
        z == -(Unit \div 2) + FMul(palm_size, 2 * Unit)
        scale == calibration.scale
        offset == calibration.position_offset
    IN  <<FMul(x, scale) + offset[1],
          FMul(y, scale) + offset[2],
          FMul(z, scale) + offset[3]>>

\* hand_position with the image's vertical axis not inverted
hand_position_y_not_inverted(lm) ==
    LET wrist == At(lm, 0)
        x == FMul(wrist[1] - Unit \div 2, 2 * Unit)
        y == FMul(wrist[2] - Unit \div 2, 2 * Unit)
        palm_size == calculate_palm_size(lm)
        z == -(Unit \div 2) - FMul(palm_size, 2 * Unit)
        scale == calibration.scale
        offset == calibration.position_offset
    IN  <<FMul(x, scale) + offset[1],
          FMul(y, scale) + offset[2],
          FMul(z, scale) + offset[3]>>

\* lines 127-145: the calibrated position of a non-empty keypoint set
hand_position(lm) ==
    LET wrist == At(lm, 0)
        x == FMul(wrist[1] - Unit \div 2, 2 * Unit)
        y == FMul(-(wrist[2] - Unit \div 2), 2 * Unit)
        palm_size == calculate_palm_size(lm)
        z == -(Unit \div 2) - FMul(palm_size, 2 * Unit)
        scale == calibration.scale
        offset == calibration.position_offset
    IN  <<FMul(x, scale) + offset[1],
          FMul(y, scale) + offset[2],
          FMul(z, scale) + offset[3]>>

\* hand_type = "left" if hand_label == "Left" else "right"
hand_type_of(label) == IF label = "Left" THEN "left" ELSE "right"

\* the HandData process_hand_landmarks returns for a non-empty keypoint set
build_hand_data(lm, label) ==
    LET gesture == detect_gesture(lm)
    IN  [hand_type     |-> hand_type_of(label),
         position      |-> hand_position(lm),
         rotation      |-> calculate_hand_orientation(lm),
         gesture       |-> gesture,
         trigger_value |-> get_trigger_value(gesture),
         grip_value    |-> get_grip_value(gesture),
         landmarks     |-> lm,
         is_detected   |-> TRUE]

----------------------------------------------------------------------------
(* hand_data.py: HandData.to_protocol_string.  A str is a TLA+ string; a   *)
(* HandData holds its floats as whole numbers of 1 / res, where res is     *)
(* Unit for the poses the tracker builds.                                  *)

\* the finer resolution: the integer n stands for n / Micro
Micro == 1000000

\* the decimal digit d as a character
Digit(d) == SubSeq("0123456789", d + 1, d + 1)

RECURSIVE DecimalDigits(_)
\* the decimal digits of the natural number n, without leading zeros
DecimalDigits(n) ==
    IF n < 10 THEN Digit(n) ELSE DecimalDigits(n \div 10) \o Digit(n % 10)

RECURSIVE ZeroPadded(_, _)
\* the last width decimal digits of n
ZeroPadded(n, width) ==
    IF width = 0 THEN "" ELSE ZeroPadded(n \div 10, width - 1) \o Digit(n % 10)

RECURSIVE Pow10(_)
Pow10(k) == IF k = 0 THEN 1 ELSE 10 * Pow10(k - 1)

\* m / step rounded to the nearest whole number, a tie to the even one: the
\* rounding of float formatting on a value the float holds exactly
RoundHalfEven(m, step) ==
    LET d == m \div step
        rem == m % step
    IN  IF 2 * rem > step \/ (2 * rem = step /\ d % 2 = 1) THEN d + 1 ELSE d

\* format_float with the sign of a negative value left out
format_float_unsigned(n, res, decimals) ==
    LET q == Pow10(decimals)
        r == RoundHalfEven(Abs(n), res \div q)
    IN  DecimalDigits(r \div q) \o "." \o ZeroPadded(r % q, decimals)

\* f"{v:.4f}" and f"{v:.2f}" for the float v = n / res: the sign of v, the
\* whole part, a point and exactly `decimals` digits of the rounded value
format_float(n, res, decimals) ==
    LET q == Pow10(decimals)
        r == RoundHalfEven(Abs(n), res \div q)
    IN  (IF n < 0 THEN "-" ELSE "")
            \o DecimalDigits(r \div q) \o "." \o ZeroPadded(r % q, decimals)

\* str.upper on a hand type
upper(hand_type) ==
    CASE hand_type = "left" -> "LEFT"
      [] hand_type = "right" -> "RIGHT"

\* to_protocol_string with the trigger and grip fields exchanged
to_protocol_string_grip_first(hd, res) ==
    "HAND:" \o upper(hd.hand_type) \o ","
        \o "X:" \o format_float(hd.position[1], res, 4) \o ","
        \o "Y:" \o format_float(hd.position[2], res, 4) \o ","
        \o "Z:" \o format_float(hd.position[3], res, 4) \o ","
        \o "QW:" \o format_float(hd.rotation[1], res, 4) \o ","
        \o "QX:" \o format_float(hd.rotation[2], res, 4) \o ","
        \o "QY:" \o format_float(hd.rotation[3], res, 4) \o ","
        \o "QZ:" \o format_float(hd.rotation[4], res, 4) \o ","
        \o "GRIP:" \o format_float(hd.grip_value, res, 2) \o ","
        \o "TRIGGER:" \o format_float(hd.trigger_value, res, 2) \o ","
        \o "GESTURE:" \o hd.gesture

\* to_protocol_string with a newline at the end of the record
to_protocol_string_terminated(hd, res) ==
    "HAND:" \o upper(hd.hand_type) \o ","
        \o "X:" \o format_float(hd.position[1], res, 4) \o ","
        \o "Y:" \o format_float(hd.position[2], res, 4) \o ","
        \o "Z:" \o format_float(hd.position[3], res, 4) \o ","
        \o "QW:" \o format_float(hd.rotation[1], res, 4) \o ","
        \o "QX:" \o format_float(hd.rotation[2], res, 4) \o ","
        \o "QY:" \o format_float(hd.rotation[3], res, 4) \o ","
        \o "QZ:" \o format_float(hd.rotation[4], res, 4) \o ","
        \o "TRIGGER:" \o format_float(hd.trigger_value, res, 2) \o ","
        \o "GRIP:" \o format_float(hd.grip_value, res, 2) \o ","
        \o "GESTURE:" \o hd.gesture \o "\n"

\* the f-string of lines 26-38
to_protocol_string(hd, res) ==
    "HAND:" \o upper(hd.hand_type) \o ","
        \o "X:" \o format_float(hd.position[1], res, 4) \o ","
        \o "Y:" \o format_float(hd.position[2], res, 4) \o ","
        \o "Z:" \o format_float(hd.position[3], res, 4) \o ","
        \o "QW:" \o format_float(hd.rotation[1], res, 4) \o ","
        \o "QX:" \o format_float(hd.rotation[2], res, 4) \o ","
        \o "QY:" \o format_float(hd.rotation[3], res, 4) \o ","
        \o "QZ:" \o format_float(hd.rotation[4], res, 4) \o ","
        \o "TRIGGER:" \o format_float(hd.trigger_value, res, 2) \o ","
        \o "GRIP:" \o format_float(hd.grip_value, res, 2) \o ","
        \o "GESTURE:" \o hd.gesture

----------------------------------------------------------------------------
(* utils/socket_client.py: SocketClient.send, lines 75-79                  *)

\* data.endswith('\n')
EndsWithNewline(data) ==
    Len(data) > 0 /\ SubSeq(data, Len(data), Len(data)) = "\n"

\* what send passes to sendall: the data, with a newline if it ends with none
terminated(data) == IF EndsWithNewline(data) THEN data ELSE data \o "\n"

----------------------------------------------------------------------------
(* The inputs: configurations the tracker can be constructed with and      *)
(* keypoint sets the detector can supply.  Every coordinate is a multiple  *)
(* of 1/16, which a float holds exactly, so that the distances below are   *)
(* exact on floats as they are here.                                       *)

\* (pinch_threshold, finger_extended_threshold) of config.json; the first is
\* the default of GestureDetector.__init__
GestureConfigs ==
    {<<500, 6000>>, <<625, 6000>>, <<0, 6000>>, <<500, Unit>>, <<-500, Unit>>}

\* the calibration of config.json, which the tracker takes over unchecked: the
\* default, a half scale with an offset, a zero scale and a negative scale
Calibrations ==
    {[scale |-> Unit, position_offset |-> <<0, 0, 0>>],
     [scale |-> 5000, position_offset |-> <<1000, -2000, 3000>>],
     [scale |-> 0, position_offset |-> <<0, 0, 0>>],
     [scale |-> -5000, position_offset |-> <<0, 0, 1000>>]}

\* the configurations the tracker is constructed with: each pair of thresholds
\* with the default calibration, and each calibration with the default thresholds
Configurations ==
    { [gestures |-> g, calibration |-> [scale |-> Unit, position_offset |-> <<0, 0, 0>>]]
        : g \in GestureConfigs }
      \cup { [gestures |-> <<500, 6000>>, calibration |-> c] : c \in Calibrations }

HandLabels == {"Left", "Right"}

VAdd(a, b) == <<a[1] + b[1], a[2] + b[2], a[3] + b[3]>>

\* the point (a/16, b/16, c/16)
P16(a, b, c) == <<625 * a, 625 * b, 625 * c>>

\* where the wrist of the reference hand lies in the image
BaseWrist == P16(8, 12, 0)

\* the knuckle of each finger relative to the wrist, each at distance 5/16
McpOffset ==
    [f \in Fingers |->
        CASE f = "thumb"  -> P16(-4, -3, 0)
          [] f = "index"  -> P16(-3, -4, 0)
          [] f = "middle" -> P16(0, -5, 0)
          [] f = "ring"   -> P16(3, -4, 0)
          [] f = "pinky"  -> P16(4, -3, 0)]

\* a point at distance k/16 from the wrist for the tip of finger f, k in
\* {0, 3, 5, 6, 10}: 3/16 = 0.6 * 5/16 and 6/16 = 1.2 * 5/16 are the ties of the
\* extension tests
TipOffset(f, k) ==
    CASE k = 0  -> P16(0, 0, 0)
      [] k = 3  -> (CASE f = "thumb"  -> P16(-2, -2, 1)
                      [] f = "index"  -> P16(-1, -2, 2)
                      [] f = "middle" -> P16(0, -3, 0)
                      [] f = "ring"   -> P16(1, -2, 2)
                      [] f = "pinky"  -> P16(2, -2, 1))
      [] k = 5  -> McpOffset[f]
      [] k = 6  -> (CASE f = "thumb"  -> P16(-4, -4, 2)
                      [] f = "index"  -> P16(-2, -4, 4)
                      [] f = "middle" -> P16(0, -6, 0)
                      [] f = "ring"   -> P16(2, -4, 4)
                      [] f = "pinky"  -> P16(4, -4, 2))
      [] k = 10 -> VAdd(McpOffset[f], McpOffset[f])

Reach(w, f, k) == VAdd(w, TipOffset(f, k))

FingerOf(i) ==
    CASE i \in 1..4   -> "thumb"
      [] i \in 5..8   -> "index"
      [] i \in 9..12  -> "middle"
      [] i \in 13..16 -> "ring"
      [] i \in 17..20 -> "pinky"

\* a 21-point hand: wrist w, knuckles at McpOffset, the tip of finger f at tips[f];
\* the joints the pipeline never reads lie on the knuckle
Hand(w, tips) ==
    [n \in 1..NumLandmarks |->
        LET i == n - 1
        IN  IF i = WRIST THEN w
            ELSE IF i = finger_tips[FingerOf(i)] THEN tips[FingerOf(i)]
            ELSE VAdd(w, McpOffset[FingerOf(i)])]

\* lm with keypoint i (0-based) moved to p
WithPoint(lm, i, p) == [lm EXCEPT ![i + 1] = p]

\* lm with dz added to the z of the keypoints in idxs (0-based)
WithZ(lm, idxs, dz) ==
    [n \in 1..Len(lm) |->
        IF (n - 1) \in idxs THEN <<lm[n][1], lm[n][2], lm[n][3] + dz>> ELSE lm[n]]

\* the open reference hand: every tip at twice its knuckle's distance
OpenTips(w) == [f \in Fingers |-> Reach(w, f, 10)]

BaseHand == Hand(BaseWrist, OpenTips(BaseWrist))

\* hands for the gesture tests: each tip at a chosen reach, the thumb tip also
\* on the index tip ("idx") or 1/16 away from it ("near")
ThumbChoices == {"r0", "r6", "r10", "idx", "near"}

GestureHands ==
    { LET idx == Reach(BaseWrist, "index", ki)
          th  == (CASE tc = "r0"   -> Reach(BaseWrist, "thumb", 0)
                    [] tc = "r6"   -> Reach(BaseWrist, "thumb", 6)
                    [] tc = "r10"  -> Reach(BaseWrist, "thumb", 10)
                    [] tc = "idx"  -> idx
                    [] tc = "near" -> VAdd(idx, P16(-1, 0, 0)))
      IN  Hand(BaseWrist,
               [f \in Fingers |->
                   (CASE f = "thumb"  -> th
                      [] f = "index"  -> idx
                      [] f = "middle" -> Reach(BaseWrist, f, km)
                      [] f = "ring"   -> Reach(BaseWrist, f, kr)
                      [] f = "pinky"  -> Reach(BaseWrist, f, kp))])
      : tc \in ThumbChoices, ki \in {0, 3, 5, 10}, km \in {0, 3, 5, 10},
        kr \in {0, 3, 10}, kp \in {0, 3, 10} }

\* hands for the orientation tests: middle knuckle at wrist + fw, index knuckle
\* at middle knuckle - rt
ForwardChoices ==
    {P16(0, 0, 0), P16(0, -5, 0), P16(0, 5, 0), P16(5, 0, 0), P16(-5, 0, 0),
     P16(3, -4, 0), P16(0, -3, 4), P16(0, 0, -5), P16(4, 0, 3), P16(-3, 0, -4)}

RightChoices ==
    {P16(0, 0, 0), P16(2, 0, 0), P16(0, -2, 0), P16(0, 0, 2),
     P16(3, -4, 0), P16(-3, 4, 0), P16(2, 1, 0)}

OrientationHands ==
    { WithPoint(WithPoint(BaseHand, MIDDLE_FINGER_MCP, VAdd(BaseWrist, fw)),
                INDEX_FINGER_MCP, VSub(VAdd(BaseWrist, fw), rt))
      : fw \in ForwardChoices, rt \in RightChoices }

\* hands for the position tests: the wrist elsewhere in the image and the palm
\* knuckles at other depths
PoseHands ==
    { WithZ(WithZ(Hand(w, OpenTips(w)), {INDEX_FINGER_MCP}, z5), {PINKY_MCP}, z17)
      : w \in {BaseWrist, P16(3, 5, 2), P16(0, 16, 0)},
        z5 \in {0, 2500}, z17 \in {0, -1875} }

\* keypoint sets of another length than 21: shorter ones, and longer ones of up
\* to MaxExtraPoints further points
OtherLengths == {0, 1, 5, 20}

MaxExtraPoints == 1

\* the open hand with the thumb tip on the index tip
PinchHand ==
    Hand(BaseWrist,
         [OpenTips(BaseWrist) EXCEPT !["thumb"] = Reach(BaseWrist, "index", 10)])

MalformedSets ==
    { SubSeq(h, 1, n) : h \in {BaseHand, PinchHand}, n \in OtherLengths }
        \cup { h \o [k \in 1..e |-> BaseWrist]
                 : h \in {BaseHand, PinchHand}, e \in 1..MaxExtraPoints }

KeypointSets == GestureHands \cup OrientationHands \cup PoseHands \cup MalformedSets

----------------------------------------------------------------------------
(* The tracking loop (HandTracker.run, lines 264-292): the detector's      *)
(* hands of a frame are processed one after the other, then the record of  *)
(* each is given to the socket client.                                     *)

\* tracking.max_hands of the configuration: the most hands the detector reports
MaxHands == 2

\* the hands of the frames with several hands: an open hand and a curled one
\* elsewhere in the image
FrameHands ==
    {BaseHand,
     Hand(P16(3, 5, 2), [f \in Fingers |-> Reach(P16(3, 5, 2), f, 0)])}

\* what the detector reports for a frame with a hand: one hand of any keypoint
\* set, or up to MaxHands hands, each with its own label
Frames ==
    { <<[landmarks |-> lm, label |-> l]>> : lm \in KeypointSets, l \in HandLabels }
        \cup UNION { [1..n -> [landmarks : FrameHands, label : HandLabels]]
                       : n \in 2..MaxHands }

NoHand == [is_detected |-> FALSE]

NoQuery == [finger |-> "none", extended |-> FALSE]

\* no HandData has been built outside the tracker
EncoderIdle == pose = NoHand /\ line = ""

\* the calibration tool has not been started
CalibratorOff ==
    /\ calibrator = [position_offset |-> <<0, 0, 0>>, scale |-> Unit]
    /\ config_json = [position_offset |-> <<0, 0, 0>>, scale |-> Unit]
    /\ cal_pc = "off"

\* no call of send has been made
NoSend == [number |-> 0]

\* no SocketClient is being exercised on its own
SocketOff ==
    /\ client = [auto_reconnect |-> TRUE, reconnect_interval |-> 5,
                 socket |-> "none", connected |-> FALSE,
                 last_reconnect_attempt |-> 0]
    /\ clock = 0
    /\ last_send = NoSend
    /\ attempts = <<>>
    /\ dropped = {}
    /\ stream = <<>>

\* HandTracker.__init__: the thresholds and the calibration of config.json
TrackerInit ==
    /\ \E c \in Configurations :
          /\ pinch_threshold = c.gestures[1]
          /\ finger_extended_threshold = c.gestures[2]
          /\ calibration = c.calibration
    /\ landmarks = <<>>
    /\ hand_label = "none"
    /\ hand_data = NoHand
    /\ finger_query = NoQuery
    /\ pc = "idle"
    /\ pending = <<>>
    /\ hands_data = <<>>
    /\ sent = <<>>
    /\ wire = <<>>

Init ==
    /\ TrackerInit
    /\ first_seen = {}
    /\ EncoderIdle
    /\ CalibratorOff
    /\ SocketOff

\* the loop takes the first hand of the frame `frame`
TakeFrame(frame) ==
    /\ pc = "idle"
    /\ landmarks' = frame[1].landmarks
    /\ hand_label' = frame[1].label
    /\ pending' = Tail(frame)
    /\ hand_data' = NoHand
    /\ finger_query' = NoQuery
    /\ hands_data' = <<>>
    /\ sent' = <<>>
    /\ wire' = <<>>
    /\ pc' = "detected"
    /\ UNCHANGED <<pinch_threshold, finger_extended_threshold, calibration>>
    /\ UNCHANGED <<first_seen, encoder_vars, calibrator_vars, socket_vars>>

\* the detector supplies the keypoints and the labels of the hands of a frame
Detect == \E frame \in Frames : TakeFrame(frame)

\* process_hand_landmarks leaving its position in the calibration offset
ProcessHandLandmarks_tracking_offset ==
    /\ pc = "detected"
    /\ Len(landmarks) > 0
    /\ hand_data' = build_hand_data(landmarks, hand_label)
    /\ hands_data' = Append(hands_data, hand_data')
    /\ calibration' = [calibration EXCEPT !.position_offset = hand_data'.position]
    /\ pc' = "processed"
    /\ UNCHANGED <<pinch_threshold, finger_extended_threshold,
                   landmarks, hand_label, finger_query, pending, sent, wire>>
    /\ UNCHANGED <<first_seen, encoder_vars, calibrator_vars, socket_vars>>

\* process_hand_landmarks on the hand the loop stands at, and the append to
\* hands_data; landmarks[0] of an empty list raises IndexError, which ends the
\* loop
ProcessHandLandmarks ==
    /\ pc = "detected"
    /\ IF Len(landmarks) = 0
       THEN /\ pc' = "raised"
            /\ UNCHANGED <<hand_data, hands_data>>
       ELSE /\ hand_data' = build_hand_data(landmarks, hand_label)
            /\ hands_data' = Append(hands_data, hand_data')
            /\ pc' = "processed"
    /\ UNCHANGED <<pinch_threshold, finger_extended_threshold, calibration,
                   landmarks, hand_label, finger_query, pending, sent, wire>>
    /\ UNCHANGED <<first_seen, encoder_vars, calibrator_vars, socket_vars>>

\* a call of is_finger_extended on the supplied hand
IsFingerExtended(finger_name) ==
    /\ pc = "detected"
    /\ finger_query' = [finger |-> finger_name,
                        extended |-> is_finger_extended(landmarks, finger_name)]
    /\ pc' = "queried"
    /\ UNCHANGED <<pinch_threshold, finger_extended_threshold, calibration,
                   landmarks, hand_label, hand_data, pending, hands_data, sent, wire>>
    /\ UNCHANGED <<first_seen, encoder_vars, calibrator_vars, socket_vars>>

\* the for loop of line 269 turns to the next hand of the frame
NextHand ==
    /\ pc = "processed"
    /\ pending # <<>>
    /\ landmarks' = Head(pending).landmarks
    /\ hand_label' = Head(pending).label
    /\ pending' = Tail(pending)
    /\ hand_data' = NoHand
    /\ pc' = "detected"
    /\ UNCHANGED <<pinch_threshold, finger_extended_threshold, calibration,
                   finger_query, hands_data, sent, wire>>
    /\ UNCHANGED <<first_seen, encoder_vars, calibrator_vars, socket_vars>>

\* lines 290-292: the record of the next HandData of hands_data is given to
\* SocketClient.send, which writes it with a newline when the client is
\* connected (delivered) and writes nothing when it is not
Send ==
    /\ pc \in {"processed", "sending"}
    /\ pending = <<>>
    /\ Len(sent) < Len(hands_data)
    /\ LET protocol_string == to_protocol_string(hands_data[Len(sent) + 1], Unit)
       IN  /\ sent' = Append(sent, protocol_string)
           /\ \E delivered \in BOOLEAN :
                 wire' = IF delivered THEN Append(wire, terminated(protocol_string))
                                      ELSE wire
    /\ pc' = "sending"
    /\ UNCHANGED <<pinch_threshold, finger_extended_threshold, calibration,
                   landmarks, hand_label, hand_data, finger_query, pending,
                   hands_data>>
    /\ UNCHANGED <<first_seen, encoder_vars, calibrator_vars, socket_vars>>

\* the frame is over: its keypoints, its HandData and its records are dropped
\* (hands_data = [] at line 266)
EndFrame ==
    /\ \/ pc = "queried"
       \/ pc = "sending" /\ Len(sent) = Len(hands_data)
    /\ landmarks' = <<>>
    /\ hand_label' = "none"
    /\ hand_data' = NoHand
    /\ finger_query' = NoQuery
    /\ pending' = <<>>
    /\ hands_data' = <<>>
    /\ sent' = <<>>
    /\ wire' = <<>>
    /\ pc' = "idle"
    /\ UNCHANGED <<pinch_threshold, finger_extended_threshold, calibration>>

\* the loop turns to the next frame
NextFrame ==
    /\ EndFrame
    /\ UNCHANGED <<first_seen, encoder_vars, calibrator_vars, socket_vars>>

Next ==
    \/ Detect
    \/ ProcessHandLandmarks
    \/ \E f \in Fingers : IsFingerExtended(f)
    \/ NextHand
    \/ Send
    \/ NextFrame

Spec == Init /\ [][Next]_vars

----------------------------------------------------------------------------
(* The tracking loop over frames of a few hands, with a record of what was *)
(* made of each hand the first time the detector reported it.              *)

\* what the detector reports for a frame: up to MaxHands of the FrameHands
ReplayFrames ==
    UNION { [1..n -> [landmarks : FrameHands, label : HandLabels]] : n \in 1..MaxHands }

DetectAgain == \E frame \in ReplayFrames : TakeFrame(frame)

\* hands_data[i] is of a hand (keypoints and hand type) that first_seen holds
SeenBefore(i) ==
    \E h \in first_seen :
        /\ h.landmarks = hands_data[i].landmarks
        /\ h.hand_type = hands_data[i].hand_type

\* hands_data[i] is of the same hand as an earlier HandData of the frame
EarlierInFrame(i) ==
    \E j \in 1..(i - 1) :
        /\ hands_data[j].landmarks = hands_data[i].landmarks
        /\ hands_data[j].hand_type = hands_data[i].hand_type

\* the loop turns to the next frame; the HandData and the record of each hand
\* reported for the first time are kept for comparison
NextFrameRecording ==
    /\ EndFrame
    /\ first_seen' = first_seen \cup
          { [landmarks |-> hands_data[i].landmarks,
             hand_type |-> hands_data[i].hand_type,
             hand_data |-> hands_data[i],
             record    |-> sent[i]]
            : i \in { k \in 1..Len(hands_data) : ~SeenBefore(k) /\ ~EarlierInFrame(k) } }
    /\ UNCHANGED <<encoder_vars, calibrator_vars, socket_vars>>

ReplayNext ==
    \/ DetectAgain
    \/ ProcessHandLandmarks
    \/ NextHand
    \/ Send
    \/ NextFrameRecording

ReplaySpec == Init /\ [][ReplayNext]_vars

----------------------------------------------------------------------------
(* The encoder on its own: a HandData is constructed with any values, as   *)
(* HandData(...) and HandData.create_default allow, and encoded.           *)

\* the tracker has not been constructed
TrackerOff ==
    /\ pinch_threshold = 500
    /\ finger_extended_threshold = 6000
    /\ calibration = [scale |-> Unit, position_offset |-> <<0, 0, 0>>]
    /\ landmarks = <<>>
    /\ hand_label = "none"
    /\ hand_data = NoHand
    /\ finger_query = NoQuery
    /\ pc = "off"
    /\ pending = <<>>
    /\ hands_data = <<>>
    /\ sent = <<>>
    /\ wire = <<>>

\* floats in millionths for the 4-decimal fields: zero, values that round to
\* zero from either side, values that round away from zero, the ties 1/32 and
\* -3/32 (which a float holds exactly), and values above 1
EncoderValues ==
    {0, 40, -40, 60, -60, 31250, -93750, 1234567, -500000, 12345678}

\* (trigger, grip) in millionths: the values of the lookup tables, values that
\* round to zero, the ties 1/8 and 3/8, and a value that rounds up to 1.00
EncoderActuations ==
    {<<0, 0>>, <<800000, 0>>, <<Micro, Micro>>, <<4000, -4000>>, <<-4000, 996000>>,
     <<125000, 375000>>, <<-125000, 6000>>, <<994999, 5001>>}

EncoderRotations ==
    {<<Micro, 0, 0, 0>>, <<707107, -707107, 40, -40>>, <<-31250, 93750, -60, 999950>>}

\* the HandData the encoder is given
EncoderPoses ==
    { [hand_type     |-> h,
       position      |-> <<a, -a, b>>,
       rotation      |-> q,
       gesture       |-> g,
       trigger_value |-> t[1],
       grip_value    |-> t[2],
       landmarks     |-> <<>>,
       is_detected   |-> TRUE]
      : h \in {"left", "right"}, a \in EncoderValues, b \in {0, -60, 31250},
        q \in EncoderRotations, t \in EncoderActuations,
        g \in {"PINCH", "FIST", "POINT", "PEACE", "THUMBS_UP", "OPEN", "UNKNOWN"} }

EncoderInit ==
    /\ TrackerOff
    /\ first_seen = {}
    /\ EncoderIdle
    /\ CalibratorOff
    /\ SocketOff

\* HandData(hand_type, position, rotation, gesture, trigger_value, grip_value, ...)
CreateHandData ==
    /\ pose = NoHand
    /\ pose' \in EncoderPoses
    /\ line' = ""
    /\ UNCHANGED <<tracker_vars, first_seen, calibrator_vars, socket_vars>>

\* a call of to_protocol_string on the HandData, the first or a later one
ToProtocolString ==
    /\ pose # NoHand
    /\ line' = to_protocol_string(pose, Micro)
    /\ UNCHANGED <<pose, tracker_vars, first_seen, calibrator_vars, socket_vars>>

EncoderNext ==
    \/ CreateHandData
    \/ ToProtocolString

EncoderSpec == EncoderInit /\ [][EncoderNext]_vars

----------------------------------------------------------------------------
(* calibrate.py: the calibration tool.  Calibrator.__init__ loads the      *)
(* calibration of the configuration file, run changes it key by key, and   *)
(* Space writes it back.                                                   *)

\* adjustment_step = 0.05 and scale_step = 0.1 of run
adjustment_step == 500

scale_step == 1000

\* the least scale the '-' key leaves: max(0.1, ...)
MinScale == 1000

\* the keys are followed while every offset stays within MaxOffsetSteps steps
\* of zero and the scale within MaxScaleTenths tenths
MaxOffsetSteps == 1

MaxScaleTenths == 15

\* calibration.scale of the configuration file, which __init__ takes over
\* unchecked: the default, the least scale of the '-' key, and values below it
LoadedScales == {Unit, 3000, MinScale, 500, 0, -Unit}

LoadedOffsets == {<<0, 0, 0>>, <<500, 0, -500>>}

CalibratorInit ==
    /\ TrackerOff
    /\ first_seen = {}
    /\ EncoderIdle
    /\ SocketOff
    /\ config_json \in [position_offset : LoadedOffsets, scale : LoadedScales]
    /\ calibrator = config_json
    /\ cal_pc = "started"

\* the tool is in its loop, waiting for a key
AwaitingKey == cal_pc \in {"started", "running"}

\* keys a, d (axis 1), w, s (axis 2), q, e (axis 3): one step on an offset
AdjustOffset(axis, direction) ==
    /\ AwaitingKey
    /\ LET moved == calibrator.position_offset[axis] + direction * adjustment_step
       IN  /\ Abs(moved) <= MaxOffsetSteps * adjustment_step
           /\ calibrator' = [calibrator EXCEPT !.position_offset[axis] = moved]
    /\ cal_pc' = "running"
    /\ UNCHANGED <<config_json, tracker_vars, first_seen, encoder_vars, socket_vars>>

\* keys + and =
ScaleUp ==
    /\ AwaitingKey
    /\ calibrator.scale + scale_step <= MaxScaleTenths * scale_step
    /\ calibrator' = [calibrator EXCEPT !.scale = calibrator.scale + scale_step]
    /\ cal_pc' = "running"
    /\ UNCHANGED <<config_json, tracker_vars, first_seen, encoder_vars, socket_vars>>

\* keys - and _
ScaleDown ==
    /\ AwaitingKey
    /\ calibrator' =
          [calibrator EXCEPT !.scale =
              IF calibrator.scale - scale_step > MinScale
              THEN calibrator.scale - scale_step ELSE MinScale]
    /\ cal_pc' = "running"
    /\ UNCHANGED <<config_json, tracker_vars, first_seen, encoder_vars, socket_vars>>

\* key r
ResetCalibration ==
    /\ AwaitingKey
    /\ calibrator' = [position_offset |-> <<0, 0, 0>>, scale |-> Unit]
    /\ cal_pc' = "running"
    /\ UNCHANGED <<config_json, tracker_vars, first_seen, encoder_vars, socket_vars>>

\* Space: save_config writes the offset and the scale to the file, unless the
\* write fails, and the loop ends
SaveAndExit ==
    /\ AwaitingKey
    /\ \/ config_json' = calibrator /\ cal_pc' = "saved"
       \/ config_json' = config_json /\ cal_pc' = "exited"
    /\ UNCHANGED <<calibrator, tracker_vars, first_seen, encoder_vars, socket_vars>>

\* ESC: the loop ends and nothing is written
ExitWithoutSaving ==
    /\ AwaitingKey
    /\ cal_pc' = "exited"
    /\ UNCHANGED <<calibrator, config_json, tracker_vars, first_seen, encoder_vars, socket_vars>>

CalibratorNext ==
    \/ \E axis \in 1..3, direction \in {-1, 1} : AdjustOffset(axis, direction)
    \/ ScaleUp
    \/ ScaleDown
    \/ ResetCalibration
    \/ SaveAndExit
    \/ ExitWithoutSaving

CalibratorSpec == CalibratorInit /\ [][CalibratorNext]_vars

----------------------------------------------------------------------------
(* SocketClient on its own: connect, send and close are called in any      *)
(* order while the clock moves, the driver accepts or refuses connections  *)
(* and transmissions succeed or fail.  Times are whole seconds.            *)

\* __init__: the default of reconnect_interval, in seconds
reconnect_interval == 5

\* time.time() when the client is constructed: 2025-11-05 00:00:00 UTC
StartTime == 1762300800

\* the clock is followed for this many seconds
MaxElapsed == 7

\* this many calls of send are followed
MaxSends == 3

\* what one reading of time.time() can differ from the previous one by: time
\* passes, or the system clock is set back
ClockSteps == {1, -1}

\* a HandData of the hand h making the gesture g
RecordOf(h, g) ==
    to_protocol_string(
        [hand_type     |-> h,
         position      |-> <<31250, -93750, 0>>,
         rotation      |-> <<Micro, 0, 0, 0>>,
         gesture       |-> g,
         trigger_value |-> 0,
         grip_value    |-> 0,
         landmarks     |-> <<>>,
         is_detected   |-> TRUE], Micro)

\* the records handed to send, in order: protocol strings of different hands
SocketRecords ==
    <<RecordOf("left", "OPEN"), RecordOf("right", "FIST"),
      RecordOf("left", "POINT"), RecordOf("right", "PEACE"),
      RecordOf("left", "PINCH"), RecordOf("right", "OPEN")>>

\* SocketClient.close
close(c) == [c EXCEPT !.socket = "none", !.connected = FALSE]

\* SocketClient.connect: an open socket is closed first, a new one is created
\* and connected, and connected tells whether the driver accepted
connect(c, accepted) ==
    LET closed == IF c.socket # "none" THEN close(c) ELSE c
    IN  [closed EXCEPT !.socket = "created", !.connected = accepted]

\* a reconnect at every send that finds the client disconnected
reconnect_due_always(c, current_time) == TRUE

\* send, line 67: the interval has gone by since the last attempt of a send
reconnect_due(c, current_time) ==
    current_time - c.last_reconnect_attempt >= c.reconnect_interval

\* what sendall wrote when it raised: nothing, or a part of the data
PartsOf(data) == {"", SubSeq(data, 1, Len(data) \div 2)}

\* SocketClient.send at time current_time.  accepted: whether the driver
\* accepts a connection now; sendall: "all" when sendall returns, "part" when
\* it raises.  The result: the client afterwards, the value returned, the
\* number of connect calls made, whether line 72 found the client connected,
\* and the strings sendall can have written.
send(c, data, current_time, accepted, sendall) ==
    LET attempt == ~c.connected /\ c.auto_reconnect
                       /\ reconnect_due(c, current_time)
        stamped == [c EXCEPT !.last_reconnect_attempt = current_time]
        ready   == IF attempt THEN connect(stamped, accepted) ELSE c
        connects == IF attempt THEN 1 ELSE 0
    IN  IF ~ready.connected
        THEN [client |-> ready, returned |-> FALSE, connects |-> connects,
              ready |-> FALSE, written |-> {""}]
        ELSE IF sendall = "all"
        THEN [client |-> ready, returned |-> TRUE, connects |-> connects,
              ready |-> TRUE, written |-> {terminated(data)}]
        ELSE [client |-> [ready EXCEPT !.connected = FALSE],
              returned |-> FALSE, connects |-> connects,
              ready |-> TRUE, written |-> PartsOf(terminated(data))]

\* SocketClient(host, port) as the tracker constructs it, or with
\* auto_reconnect off
SocketInit ==
    /\ TrackerOff
    /\ first_seen = {}
    /\ EncoderIdle
    /\ CalibratorOff
    /\ \E auto \in BOOLEAN :
          client = [auto_reconnect |-> auto,
                    reconnect_interval |-> reconnect_interval,
                    socket |-> "none", connected |-> FALSE,
                    last_reconnect_attempt |-> 0]
    /\ clock = StartTime
    /\ last_send = NoSend
    /\ attempts = <<>>
    /\ dropped = {}
    /\ stream = <<>>

\* time.time() gives another reading
Tick ==
    /\ \E step \in ClockSteps :
          /\ clock + step \in StartTime..(StartTime + MaxElapsed)
          /\ clock' = clock + step
    /\ UNCHANGED <<client, last_send, attempts, dropped, stream, tracker_vars, first_seen,
                   encoder_vars, calibrator_vars>>

\* a call of connect that is not made by send (HandTracker.run, line 245)
SocketConnect ==
    /\ \E accepted \in BOOLEAN : client' = connect(client, accepted)
    /\ UNCHANGED <<clock, last_send, attempts, dropped, stream, tracker_vars, first_seen,
                   encoder_vars, calibrator_vars>>

\* a call of send with the next record; no record is sent twice, so that the
\* stream tells which call wrote what
SocketSend ==
    /\ last_send.number < MaxSends
    /\ \E accepted \in BOOLEAN, sendall \in {"all", "part"} :
          LET data == SocketRecords[last_send.number + 1]
              r    == send(client, data, clock, accepted, sendall)
          IN  /\ client' = r.client
              /\ \E written \in r.written :
                    stream' = IF written = "" THEN stream
                              ELSE Append(stream, written)
              /\ attempts' = IF r.connects > 0 THEN Append(attempts, clock)
                             ELSE attempts
              /\ dropped' = IF r.ready THEN dropped ELSE dropped \cup {data}
              /\ last_send' = [number    |-> last_send.number + 1,
                               data      |-> data,
                               connected |-> client.connected,
                               connects  |-> r.connects,
                               ready     |-> r.ready,
                               returned  |-> r.returned,
                               wrote     |-> Len(stream') - Len(stream)]
    /\ UNCHANGED <<clock, tracker_vars, first_seen, encoder_vars, calibrator_vars>>

\* a call of close
SocketClose ==
    /\ client.socket # "none"
    /\ client' = close(client)
    /\ UNCHANGED <<clock, last_send, attempts, dropped, stream, tracker_vars, first_seen,
                   encoder_vars, calibrator_vars>>

SocketNext ==
    \/ Tick
    \/ SocketConnect
    \/ SocketSend
    \/ SocketClose

SocketSpec == SocketInit /\ [][SocketNext]_vars

----------------------------------------------------------------------------
(* Exact arithmetic for the statements below.  The coordinates of the      *)
(* inputs are multiples of 1/16, so squared distances are whole numbers of *)
(* 1/256 and the tests of the classifier can be decided without a square   *)
(* root or a rounded product.                                              *)

\* 256 times the squared distance of p and q
SqDist16(p, q) ==
    LET dx == (p[1] - q[1]) \div 625
        dy == (p[2] - q[2]) \div 625
        dz == (p[3] - q[3]) \div 625
    IN  dx * dx + dy * dy + dz * dz

\* dist(tip, wrist) > dist(joint, wrist) * factor, for a factor k / 5 >= 0
FartherThan(lm, tip, joint, fifths) ==
    25 * SqDist16(At(lm, tip), At(lm, WRIST))
        > fifths * fifths * SqDist16(At(lm, joint), At(lm, WRIST))

\* the extension test as the specification words it: the thumb tip (4) against
\* joint 2 and 1.2, the other tips (8, 12, 16, 20) against the knuckle three
\* keypoints before them (5, 9, 13, 17) and the configured threshold
ExactExtended(lm, f) ==
    IF f = "thumb"
    THEN FartherThan(lm, 4, 2, 6)
    ELSE FartherThan(lm, finger_tips[f], finger_tips[f] - 3,
                     finger_extended_threshold \div 2000)

\* dist(thumb tip, index tip) < pinch_threshold
ExactPinch(lm) ==
    /\ pinch_threshold > 0
    /\ 390625 * SqDist16(At(lm, 4), At(lm, 8)) < pinch_threshold * pinch_threshold

ExactCount(lm) == Cardinality({f \in Fingers : ExactExtended(lm, f)})

\* a keypoint set of exactly 21 points has been turned into a HandData
ProcessedValid == pc = "processed" /\ Len(landmarks) = 21

----------------------------------------------------------------------------
(* C1: for a valid 21-point set detect_gesture returns the label of the    *)
(* first guard that holds, in the order PINCH, FIST, POINT, PEACE (thumb   *)
(* unconstrained), THUMBS_UP, OPEN (four or more extended), else UNKNOWN.  *)

C1_FirstGuard(lm) ==
    LET t == ExactExtended(lm, "thumb")
        i == ExactExtended(lm, "index")
        m == ExactExtended(lm, "middle")
        r == ExactExtended(lm, "ring")
        p == ExactExtended(lm, "pinky")
    IN  CASE ExactPinch(lm)                  -> "PINCH"
          [] ~ExactPinch(lm) /\ ExactCount(lm) = 0 -> "FIST"
          [] OTHER ->
             (CASE i /\ ~t /\ ~m /\ ~r /\ ~p   -> "POINT"
                [] i /\ m /\ ~r /\ ~p          -> "PEACE"
                [] t /\ ~i /\ ~m /\ ~r /\ ~p   -> "THUMBS_UP"
                [] OTHER -> IF ExactCount(lm) >= 4 THEN "OPEN" ELSE "UNKNOWN")

C1_GuardChain == ProcessedValid => hand_data.gesture = C1_FirstGuard(landmarks)

\* index, middle and thumb extended, ring and pinky not, no pinch: PEACE
C1_Witness ==
    /\ ProcessedValid
    /\ ~ExactPinch(landmarks)
    /\ {f \in Fingers : ExactExtended(landmarks, f)} = {"thumb", "index", "middle"}
    /\ hand_data.gesture = "PEACE"

----------------------------------------------------------------------------
(* C2, as claimed: whenever thumb tip and index tip of a valid set         *)
(* coincide the gesture is PINCH, for every configuration, a pinch         *)
(* threshold of 0 or below included.                                       *)

TipsCoincide == At(landmarks, 4) = At(landmarks, 8)

C2_CoincidentTipsAlwaysPinch ==
    (ProcessedValid /\ TipsCoincide) => hand_data.gesture = "PINCH"

(* C2, amended: whenever thumb tip and index tip of a valid set coincide   *)
(* and the pinch threshold is greater than 0, the gesture is PINCH,        *)
(* whatever the extension state of the fingers.                            *)

C2_CoincidentTipsPinch ==
    (ProcessedValid /\ TipsCoincide /\ pinch_threshold > 0)
        => hand_data.gesture = "PINCH"

\* coincident tips away from the wrist on a hand with no finger extended
C2_Witness ==
    /\ ProcessedValid
    /\ TipsCoincide
    /\ pinch_threshold > 0
    /\ ExactCount(landmarks) = 0
    /\ At(landmarks, 4) # At(landmarks, 0)
    /\ hand_data.gesture = "PINCH"

----------------------------------------------------------------------------
(* C3, as claimed: a valid set with all five fingers curled (no tip        *)
(* farther from the wrist than its joint's scaled distance; every tip on   *)
(* the wrist included) is a FIST with grip 1.0 and trigger 0.0.            *)

AllCurled == \A f \in Fingers : ~ExactExtended(landmarks, f)

IsFist ==
    /\ hand_data.gesture = "FIST"
    /\ hand_data.grip_value = Unit
    /\ hand_data.trigger_value = 0

C3_CurledAlwaysFist == (ProcessedValid /\ AllCurled) => IsFist

(* C3, amended: a valid set with all five fingers curled whose thumb tip   *)
(* and index tip are not closer than the pinch threshold is a FIST with    *)
(* grip 1.0 and trigger 0.0.                                               *)

C3_CurledNoPinchFist ==
    (ProcessedValid /\ AllCurled /\ ~ExactPinch(landmarks)) => IsFist

\* every tip at its tie distance (none on the wrist), default thresholds
C3_Witness ==
    /\ ProcessedValid
    /\ AllCurled
    /\ pinch_threshold > 0
    /\ ~ExactPinch(landmarks)
    /\ \A f \in Fingers : At(landmarks, finger_tips[f]) # At(landmarks, 0)
    /\ IsFist

----------------------------------------------------------------------------
(* C4: trigger and grip of a HandData are a fixed function of its gesture: *)
(* POINT (0.8, 0.0), PINCH (1.0, 0.5), FIST (0.0, 1.0), any other gesture  *)
(* (0.0, 0.0); both lie in [0, 1]; index alone extended without pinch is   *)
(* POINT with trigger 0.8 and grip 0.0.                                    *)

C4_Lookup(gesture) ==
    CASE gesture = "POINT" -> <<8000, 0>>
      [] gesture = "PINCH" -> <<Unit, 5000>>
      [] gesture = "FIST"  -> <<0, Unit>>
      [] gesture \in {"PEACE", "THUMBS_UP", "OPEN", "UNKNOWN"} -> <<0, 0>>

OnlyIndexExtended ==
    /\ Len(landmarks) = 21
    /\ ~ExactPinch(landmarks)
    /\ {f \in Fingers : ExactExtended(landmarks, f)} = {"index"}

C4_Actuation ==
    pc = "processed" =>
        /\ <<hand_data.trigger_value, hand_data.grip_value>> = C4_Lookup(hand_data.gesture)
        /\ hand_data.trigger_value \in 0..Unit
        /\ hand_data.grip_value \in 0..Unit
        /\ OnlyIndexExtended =>
               /\ hand_data.gesture = "POINT"
               /\ hand_data.trigger_value = 8000
               /\ hand_data.grip_value = 0

C4_Witness ==
    /\ pc = "processed"
    /\ OnlyIndexExtended
    /\ hand_data.gesture = "POINT"
    /\ hand_data.trigger_value = 8000

----------------------------------------------------------------------------
(* C5: is_finger_extended is true for the thumb iff dist(tip 4, wrist) >   *)
(* 1.2 * dist(joint 2, wrist), whatever the configured threshold, and for  *)
(* the other fingers iff dist(tip, wrist) > threshold * dist(knuckle,      *)
(* wrist), a tie being "not extended"; on a set shorter than 21 points it  *)
(* is false for every finger.                                              *)

C5_FingerExtension ==
    pc = "queried" =>
        finger_query.extended =
            IF Len(landmarks) < 21 THEN FALSE
            ELSE ExactExtended(landmarks, finger_query.finger)

\* a thumb tip at exactly 1.2 times the joint's distance, under a configured
\* threshold it would exceed, is not extended
C5_Witness ==
    /\ pc = "queried"
    /\ Len(landmarks) = 21
    /\ finger_query.finger = "thumb"
    /\ 25 * SqDist16(At(landmarks, 4), At(landmarks, 0))
           = 36 * SqDist16(At(landmarks, 2), At(landmarks, 0))
    /\ SqDist16(At(landmarks, 2), At(landmarks, 0)) > 0
    /\ finger_extended_threshold < ThumbFactor
    /\ finger_query.extended = FALSE

----------------------------------------------------------------------------
(* Statements about the orientation hold up to the rounding of the         *)
(* arithmetic: two numbers agree when they differ by at most Tolerance.    *)

Tolerance == Unit \div 200

Near(a, b) == Abs(a - b) <= Tolerance

VDot(a, b) == FMul(a[1], b[1]) + FMul(a[2], b[2]) + FMul(a[3], b[3])

\* the forward vector of the supplied hand has a length
ForwardDefined == VNorm(forward_raw(landmarks)) > 0

----------------------------------------------------------------------------
(* C6, as claimed: for every valid 21-point set the quaternion returned    *)
(* has norm 1, the sets where a fallback vector is substituted included,   *)
(* and is exactly the identity when middle knuckle and wrist coincide.     *)

QuatNormSq(q) == FMul(q[1], q[1]) + FMul(q[2], q[2]) + FMul(q[3], q[3]) + FMul(q[4], q[4])

C6_UnitQuaternion ==
    ProcessedValid =>
        /\ Near(QuatNormSq(hand_data.rotation), Unit)
        /\ ~ForwardDefined => hand_data.rotation = <<Unit, 0, 0, 0>>

----------------------------------------------------------------------------
(* C7, as claimed: for every valid 21-point set with a non-zero forward    *)
(* vector, after right = up x forward the vectors right, up, forward are   *)
(* of unit length, pairwise orthogonal and right-handed (right x up =      *)
(* forward), also when a fallback replaced right or up.                    *)

IsOrthonormalRightHanded(right, up, forward) ==
    /\ Near(VDot(right, right), Unit)
    /\ Near(VDot(up, up), Unit)
    /\ Near(VDot(forward, forward), Unit)
    /\ Near(VDot(right, up), 0)
    /\ Near(VDot(right, forward), 0)
    /\ Near(VDot(up, forward), 0)
    /\ \A k \in 1..3 : Near(VCross(right, up)[k], forward[k])

C7_OrthonormalBasis ==
    (ProcessedValid /\ ForwardDefined) =>
        IsOrthonormalRightHanded(right_vector(landmarks), up_vector(landmarks),
                                 forward_vector(landmarks))

----------------------------------------------------------------------------
(* C8, as claimed: the quaternion returned is the four-branch conversion   *)
(* of the matrix whose columns are right, up, forward: m[i][0] = right[i], *)
(* m[i][1] = up[i], m[i][2] = forward[i].                                  *)

ColumnsMatrix(right, up, forward) ==
    <<<<right[1], up[1], forward[1]>>,
      <<right[2], up[2], forward[2]>>,
      <<right[3], up[3], forward[3]>>>>

C8_ColumnsConvention ==
    (ProcessedValid /\ ForwardDefined) =>
        LET q == matrix_to_quaternion(
                     ColumnsMatrix(right_vector(landmarks), up_vector(landmarks),
                                   forward_vector(landmarks)))
        IN  \A k \in 1..4 : Near(hand_data.rotation[k], q[k])

----------------------------------------------------------------------------
(* C9: the position of a HandData is (x' * scale + offset0, y' * scale +   *)
(* offset1, z' * scale + offset2) with x' = (wrist.x - 0.5) * 2, y' =      *)
(* -(wrist.y - 0.5) * 2, z' = -0.5 - palmSize * 2, palmSize the mean of    *)
(* the three distances among keypoints 0, 5 and 17, or 0.1 for a set of    *)
(* fewer than 21 points; nothing is clamped.                               *)

C9_PalmSize(lm) ==
    IF Len(lm) < 21 THEN 1000
    ELSE LET sum == calculate_distance(lm[1], lm[6])
                      + calculate_distance(lm[1], lm[18])
                      + calculate_distance(lm[6], lm[18])
         IN  (2 * sum + 3) \div 6

C9_Position ==
    pc = "processed" =>
        LET wrist == landmarks[1]
            xp == 2 * (wrist[1] - 5000)
            yp == -(2 * (wrist[2] - 5000))
            zp == -5000 - 2 * C9_PalmSize(landmarks)
            scale == calibration.scale
            offset == calibration.position_offset
        IN  hand_data.position = <<FMul(xp, scale) + offset[1],
                                   FMul(yp, scale) + offset[2],
                                   FMul(zp, scale) + offset[3]>>

\* a hand at the image's corner with its palm knuckles at other depths: the
\* position leaves [-1, 1] on every axis
C9_Witness ==
    /\ ProcessedValid
    /\ landmarks[6][3] # landmarks[1][3]
    /\ hand_data.position[1] <= -Unit
    /\ hand_data.position[2] <= -Unit
    /\ hand_data.position[3] < -Unit

----------------------------------------------------------------------------
(* C10, as claimed: the position does not depend on the detector's z: two  *)
(* keypoint sets that agree on the x and y of every keypoint yield the     *)
(* same position under the same calibration.                               *)

\* keypoints whose z is changed, and by how much
ZIndexSets == {{0}, {5}, {17}, {9}, {4, 8, 12, 16, 20}, {1, 2, 3}, 1..20 \ {5, 17}}

ZDeltas == {-625, 1250}

\* keypoint sets with the x and y of lm and other z values
ZVariants(lm) == {WithZ(lm, idxs, dz) : idxs \in ZIndexSets, dz \in ZDeltas}

C10_PositionIgnoresZ ==
    pc = "processed" =>
        \A lm2 \in ZVariants(landmarks) : hand_position(lm2) = hand_data.position

(* C10, amended: the x and y of the position do not depend on any z, and   *)
(* two keypoint sets that agree on the x and y of every keypoint and on    *)
(* the z of keypoints 0, 5 and 17 yield the same position.                 *)

SamePalmZ(lm, lm2) == \A i \in {0, 5, 17} : i < Len(lm) => At(lm2, i)[3] = At(lm, i)[3]

C10_PositionIgnoresOtherZ ==
    pc = "processed" =>
        \A lm2 \in ZVariants(landmarks) :
            /\ hand_position(lm2)[1] = hand_data.position[1]
            /\ hand_position(lm2)[2] = hand_data.position[2]
            /\ SamePalmZ(landmarks, lm2) => hand_position(lm2) = hand_data.position

\* a valid hand, and a variant of it with another z on the middle knuckle and
\* the same position
C10_Witness ==
    /\ ProcessedValid
    /\ \E lm2 \in ZVariants(landmarks) :
          /\ At(lm2, 9)[3] # At(landmarks, 9)[3]
          /\ SamePalmZ(landmarks, lm2)
          /\ hand_position(lm2) = hand_data.position

----------------------------------------------------------------------------
(* C11, as claimed: under the calibration the tracker holds, whatever its  *)
(* scale, the z of the position decreases as the palm size grows: of two   *)
(* keypoint sets the one with the smaller palm size has the greater z.     *)

\* the keypoint sets the processed one is compared with
PalmHands == PoseHands \cup { lm \in MalformedSets : Len(lm) > 0 }

C11_DepthDecreasesWithPalm ==
    pc = "processed" =>
        \A lm2 \in PalmHands :
            C9_PalmSize(landmarks) < C9_PalmSize(lm2)
                => hand_data.position[3] > hand_position(lm2)[3]

(* C11, amended: the same under a calibration whose scale is positive.     *)
(* With a scale of 0 the z is the offset whatever the palm, and with a     *)
(* negative scale the z grows with the palm size.                          *)

C11_DepthDecreasesPositiveScale ==
    (pc = "processed" /\ calibration.scale > 0) =>
        \A lm2 \in PalmHands :
            C9_PalmSize(landmarks) < C9_PalmSize(lm2)
                => hand_data.position[3] > hand_position(lm2)[3]

\* a processed hand under a positive scale, and a hand with a larger palm that
\* lies deeper
C11_Witness ==
    /\ ProcessedValid
    /\ calibration.scale > 0
    /\ \E lm2 \in PalmHands :
          /\ C9_PalmSize(landmarks) < C9_PalmSize(lm2)
          /\ hand_data.position[3] > hand_position(lm2)[3]

----------------------------------------------------------------------------
(* Reading a record back, as the receiver of the protocol does.            *)

RECURSIVE IndexFrom(_, _, _)
\* the position of the first character c of s at or after position i, or 0
IndexFrom(s, c, i) ==
    IF i > Len(s) THEN 0
    ELSE IF SubSeq(s, i, i) = c THEN i
    ELSE IndexFrom(s, c, i + 1)

RECURSIVE Split(_, _)
\* s.split(c): the pieces of s between the occurrences of the character c
Split(s, c) ==
    LET i == IndexFrom(s, c, 1)
    IN  IF i = 0 THEN <<s>>
        ELSE <<SubSeq(s, 1, i - 1)>> \o Split(SubSeq(s, i + 1, Len(s)), c)

DigitChars == {"0", "1", "2", "3", "4", "5", "6", "7", "8", "9"}

IsDigits(s) == Len(s) > 0 /\ \A i \in 1..Len(s) : SubSeq(s, i, i) \in DigitChars

\* s without its leading minus sign, if it has one
Unsigned(s) ==
    IF Len(s) > 0 /\ SubSeq(s, 1, 1) = "-" THEN SubSeq(s, 2, Len(s)) ELSE s

\* s is a number with exactly `decimals` digits after the point
HasDecimals(s, decimals) ==
    LET parts == Split(Unsigned(s), ".")
    IN  /\ Len(parts) = 2
        /\ IsDigits(parts[1])
        /\ IsDigits(parts[2])
        /\ Len(parts[2]) = decimals

ProtocolKeys ==
    <<"HAND", "X", "Y", "Z", "QW", "QX", "QY", "QZ", "TRIGGER", "GRIP", "GESTURE">>

GestureNames == {"PINCH", "FIST", "POINT", "PEACE", "THUMBS_UP", "OPEN", "UNKNOWN"}

\* the fields of a record, each split into its key and its value
Fields(s) ==
    LET parts == Split(s, ",")
    IN  [k \in 1..Len(parts) |-> Split(parts[k], ":")]

WellFormedRecord(s) ==
    LET fields == Fields(s)
    IN  /\ IndexFrom(s, " ", 1) = 0
        /\ Len(fields) = 11
        /\ \A k \in 1..11 : Len(fields[k]) = 2 /\ fields[k][1] = ProtocolKeys[k]
        /\ fields[1][2] \in {"LEFT", "RIGHT"}
        /\ \A k \in 2..8 : HasDecimals(fields[k][2], 4)
        /\ \A k \in 9..10 : HasDecimals(fields[k][2], 2)
        /\ fields[11][2] \in GestureNames

----------------------------------------------------------------------------
(* C12: the record of every pose the tracker builds, whatever the label of *)
(* the hand, has exactly eleven comma-separated key:value fields without   *)
(* spaces, in the order HAND, X, Y, Z, QW, QX, QY, QZ, TRIGGER, GRIP,      *)
(* GESTURE; the HAND value is LEFT or RIGHT, X to QZ have 4 decimals,      *)
(* TRIGGER and GRIP have 2.                                                *)

C12_RecordFormat == \A i \in 1..Len(sent) : WellFormedRecord(sent[i])

\* the record of a right hand left of the image's centre making a gesture
\* that pulls the trigger
C12_Witness ==
    /\ pc = "sending"
    /\ Len(sent) = 1
    /\ hand_label = "Right"
    /\ hand_data.position[1] < 0
    /\ hand_data.trigger_value > 0
    /\ WellFormedRecord(sent[1])

----------------------------------------------------------------------------
(* C13, as claimed: the string to_protocol_string returns ends with a      *)
(* newline and contains no other newline.                                  *)

----------------------------------------------------------------------------
(* C14: encoding is deterministic and round-trips: a second call of        *)
(* to_protocol_string on the same HandData returns the same line, and the  *)
(* line split on ',' and ':' gives back the hand label, the gesture name,  *)
(* the position and quaternion values rounded to 4 decimals and the        *)
(* trigger and grip values rounded to 2, negative values and values that   *)
(* round to zero included.                                                 *)

RECURSIVE ParseNat(_)
\* the natural number written by the digits s
ParseNat(s) ==
    IF Len(s) = 0 THEN 0
    ELSE 10 * ParseNat(SubSeq(s, 1, Len(s) - 1))
            + (IndexFrom("0123456789", SubSeq(s, Len(s), Len(s)), 1) - 1)

\* the number written by s, as a whole number of 10 ** -decimals
ParseDecimal(s, decimals) ==
    LET parts == Split(Unsigned(s), ".")
        magnitude == ParseNat(parts[1]) * Pow10(decimals) + ParseNat(parts[2])
    IN  IF Unsigned(s) = s THEN magnitude ELSE -magnitude

\* r / 10 ** decimals is n / Micro rounded to `decimals` places: no other
\* multiple of 10 ** -decimals is nearer, and of two equally near it is the even
IsRounded(r, n, decimals) ==
    LET step == Micro \div Pow10(decimals)
        error == Abs(r * step - n)
    IN  2 * error < step \/ (2 * error = step /\ r % 2 = 0)

RoundTrips(s, hd) ==
    LET fields == Fields(s)
    IN  /\ Len(fields) = 11
        /\ \A k \in 1..11 : Len(fields[k]) = 2
        /\ fields[1][2] = (IF hd.hand_type = "left" THEN "LEFT" ELSE "RIGHT")
        /\ \A k \in 1..3 :
              IsRounded(ParseDecimal(fields[1 + k][2], 4), hd.position[k], 4)
        /\ \A k \in 1..4 :
              IsRounded(ParseDecimal(fields[4 + k][2], 4), hd.rotation[k], 4)
        /\ IsRounded(ParseDecimal(fields[9][2], 2), hd.trigger_value, 2)
        /\ IsRounded(ParseDecimal(fields[10][2], 2), hd.grip_value, 2)
        /\ fields[11][2] = hd.gesture

C14_RoundTrip ==
    /\ [](line # "" => RoundTrips(line, pose))
    /\ [][(line # "" /\ pose' = pose) => line' = line]_vars

\* the line of a HandData with a negative x that rounds to zero, a negative
\* trigger that rounds to zero and a grip that rounds up to 1.00
C14_Witness ==
    /\ line # ""
    /\ pose.position[1] = -40
    /\ pose.trigger_value = -4000
    /\ pose.grip_value = 996000
    /\ RoundTrips(line, pose)
    /\ Fields(line)[2][2] = "-0.0000"
    /\ Fields(line)[10][2] = "1.00"

----------------------------------------------------------------------------
(* C15, as claimed: a keypoint set of another length than 21, shorter or   *)
(* longer, is treated as invalid: every finger is reported not extended,   *)
(* no pinch is detected and the palm size is the fallback 0.1.             *)

\* the z of the position of a hand whose palm size is the fallback
FallbackDepth == FMul(-7000, calibration.scale) + calibration.position_offset[3]

\* what the pipeline reports for an invalid keypoint set
TreatedAsInvalid ==
    /\ pc = "queried" => ~finger_query.extended
    /\ pc = "processed" =>
          /\ hand_data.gesture # "PINCH"
          /\ hand_data.position[3] = FallbackDepth

TreatedAs(lm) ==
    /\ pc = "queried" =>
          finger_query.extended = ExactExtended(lm, finger_query.finger)
    /\ pc = "processed" =>
          /\ hand_data.gesture = C1_FirstGuard(lm)
          /\ hand_data.position[3]
                = FMul(-5000 - 2 * C9_PalmSize(lm), calibration.scale)
                    + calibration.position_offset[3]

----------------------------------------------------------------------------
(* C16: a keypoint set of 0 to 20 points never raises: it is classified as *)
(* UNKNOWN or FIST and process_hand_landmarks returns a HandData with a    *)
(* finite position.                                                        *)

C16_MalformedNeverRaises ==
    (Len(landmarks) < 21 /\ pc \in {"processed", "raised"}) =>
        /\ pc = "processed"
        /\ hand_data.gesture \in {"UNKNOWN", "FIST"}
        /\ hand_data.position \in Int \X Int \X Int

----------------------------------------------------------------------------
(* C17: of the records given to the transport for one frame no two carry   *)
(* the same HAND value, whatever labels the detector gave to the hands of  *)
(* the frame.                                                              *)

\* the HAND value of a record
HandOf(s) == Fields(s)[1][2]

C17_OneRecordPerLabel ==
    \A i, j \in 1..Len(sent) : i # j => HandOf(sent[i]) # HandOf(sent[j])

----------------------------------------------------------------------------
(* C18: the pipeline keeps no state across hands and frames: no step       *)
(* changes the thresholds or the calibration, and whenever a hand          *)
(* (keypoints and handedness) is processed, its HandData and its record    *)
(* are those made of the same hand earlier in the frame and those made of  *)
(* it when it was first reported, whatever frames came in between.         *)

SameHand(a, b) == a.landmarks = b.landmarks /\ a.hand_type = b.hand_type

C18_AsFirstSeen ==
    \A i \in 1..Len(hands_data) :
        /\ \A h \in first_seen :
              SameHand(h, hands_data[i]) =>
                  /\ hands_data[i] = h.hand_data
                  /\ i <= Len(sent) => sent[i] = h.record
        /\ \A j \in 1..Len(hands_data) :
              SameHand(hands_data[j], hands_data[i]) =>
                  /\ hands_data[j] = hands_data[i]
                  /\ (i <= Len(sent) /\ j <= Len(sent)) => sent[i] = sent[j]

C18_Stateless ==
    /\ []C18_AsFirstSeen
    /\ [][UNCHANGED <<pinch_threshold, finger_extended_threshold, calibration>>]_vars

\* after frames with other hands, a frame with twice the hand of the first
\* frame: both records equal the record of the first frame
C18_Witness ==
    /\ pc = "sending"
    /\ Len(sent) = 2
    /\ Cardinality(first_seen) >= 3
    /\ SameHand(hands_data[1], hands_data[2])
    /\ \E h \in first_seen : SameHand(h, hands_data[2]) /\ sent[2] = h.record
    /\ sent[1] = sent[2]

----------------------------------------------------------------------------
(* C19: whatever scale the calibration tool loaded, once a key has been    *)
(* handled its scale is at least 0.1, and every scale that Space writes to *)
(* the configuration file is at least 0.1.                                 *)

C19_ScaleAtLeastMin ==
    /\ cal_pc = "running" => calibrator.scale >= 1000
    /\ cal_pc = "saved" => config_json.scale >= 1000

----------------------------------------------------------------------------
(* C20, as claimed: guards 3 to 6 of detect_gesture (POINT, PEACE,         *)
(* THUMBS_UP, OPEN) are not mutually exclusive: some combination of the    *)
(* five extension states satisfies two or more of them.                    *)

\* the combinations of the extension states of the five fingers
Extensions == [Fingers -> BOOLEAN]

\* the conditions of lines 161, 165, 169 and 173 on the extension states e
GuardHolds(gesture, e) ==
    CASE gesture = "POINT" ->
            e["index"] /\ ~e["middle"] /\ ~e["ring"] /\ ~e["pinky"] /\ ~e["thumb"]
      [] gesture = "PEACE" ->
            e["index"] /\ e["middle"] /\ ~e["ring"] /\ ~e["pinky"]
      [] gesture = "THUMBS_UP" ->
            e["thumb"] /\ ~e["index"] /\ ~e["middle"] /\ ~e["ring"] /\ ~e["pinky"]
      [] gesture = "OPEN" ->
            Cardinality({f \in Fingers : e[f]}) >= 4

\* the guards 3 to 6 that the extension states e satisfy
GuardsSatisfied(e) ==
    {gesture \in {"POINT", "PEACE", "THUMBS_UP", "OPEN"} : GuardHolds(gesture, e)}

\* stated where a gesture has been returned: the claim is about the guards
\* that produced it
C20_GuardsOverlap ==
    ProcessedValid => \E e \in Extensions : Cardinality(GuardsSatisfied(e)) >= 2

(* C20, amended: guards 3 to 6 are mutually exclusive: every combination   *)
(* of the five extension states satisfies at most one of them, so that     *)
(* without a pinch the gesture returned is that of the one guard           *)
(* satisfied, in whatever order the four are evaluated.                    *)

\* the extension states of the keypoint set lm
ExtensionsOf(lm) == [f \in Fingers |-> ExactExtended(lm, f)]

C20_GuardsExclusive ==
    /\ \A e \in Extensions : Cardinality(GuardsSatisfied(e)) <= 1
    /\ (ProcessedValid /\ ~ExactPinch(landmarks)) =>
          \A gesture \in GuardsSatisfied(ExtensionsOf(landmarks)) :
              hand_data.gesture = gesture

\* thumb, index and middle extended without a pinch: PEACE is the one guard
\* satisfied, three fingers short of nothing but OPEN's count of four
C20_Witness ==
    /\ ProcessedValid
    /\ ~ExactPinch(landmarks)
    /\ ExactCount(landmarks) = 3
    /\ GuardsSatisfied(ExtensionsOf(landmarks)) = {"PEACE"}
    /\ hand_data.gesture = "PEACE"

----------------------------------------------------------------------------
(* C21: reconnecting and dropping in SocketClient.send.                    *)

\* the latest send found the client disconnected when it was called
SentWhileDisconnected == last_send # NoSend /\ ~last_send.connected

\* the latest send was still disconnected after its reconnect step
StillDisconnected == SentWhileDisconnected /\ ~last_send.ready

\* the readings at which sends called connect lie at least the interval apart
AttemptsSpaced ==
    \A i \in 1..Len(attempts) : \A j \in (i + 1)..Len(attempts) :
        attempts[j] - attempts[i] >= client.reconnect_interval

\* no record whose send was still disconnected is in the stream
DroppedNeverTransmitted ==
    \A d \in dropped : \A k \in 1..Len(stream) : stream[k] # terminated(d)

\* C21: with auto_reconnect on, a send made while the client is disconnected
\* calls connect at most once, and only when the clock reads at least
\* reconnect_interval more than at the previous connect made by a send; a
\* send still disconnected after that returns False and writes nothing, and
\* its record is never written by a later send.
C21_ReconnectAndDrop ==
    client.auto_reconnect =>
        /\ SentWhileDisconnected => last_send.connects <= 1
        /\ AttemptsSpaced
        /\ StillDisconnected => ~last_send.returned /\ last_send.wrote = 0
        /\ DroppedNeverTransmitted

\* C21 happens: a send was dropped after a failed reconnect, another was
\* dropped before the interval had gone by, a later send reconnected and
\* transmitted its record
C21_Witness ==
    /\ client.auto_reconnect
    /\ Len(attempts) = 2
    /\ Cardinality(dropped) = 2
    /\ SentWhileDisconnected /\ last_send.connects = 1 /\ last_send.returned
    /\ stream = <<terminated(last_send.data)>>

====
